---- MODULE Spec2Model ----
(***************************************************************************)
(* simple-eyre: Context::debug, the minimal eyre report renderer           *)
(* (src/src/lib.rs).  The model follows one render call statement by       *)
(* statement, against a sink of bounded capacity, for every error graph    *)
(* of at most MaxErrs errors, and repeats the call on a second sink.       *)
(***************************************************************************)
EXTENDS Integers, Sequences, FiniteSets, TLC

(* ------------------------------ bounds --------------------------------- *)

\* Errors reachable from the root, the root included.
MaxErrs == 4
\* Largest number of errors of a graph whose cause links close a cycle.
MaxCycle == 3
\* Finite sink capacities tried: 0..MaxCap pieces (and the unlimited sink).
MaxCap == 21
\* Render calls made on the same error value, each into its own sink.
NumCalls == 2

\* Loop iterations whose output is recorded.  Every iteration writes at least
\* three pieces (the newline, a prefix, a character of text), so a sink of
\* finite capacity has failed before; past MaxWalk iterations the walk goes
\* on, and what it appends to the unlimited sink is no longer recorded.
MaxWalk == MaxErrs + (MaxCap \div 3)

(* --------------------------- values and text --------------------------- *)

\* Option::None for a cause link; errors are 1..numErr.
None == 0
\* The `error` argument of debug(): the root of the report.
Root == 1

\* The capacity of a sink that never fails (a String behind the Formatter).
Infinite == 0 - 1

\* One piece written to the sink: a character, or what an indentation
\* context puts before a line of a numbered block.
Ch(c) == [ch |-> c]
LabelPiece(n) == [label |-> n]
PadPiece(n) == [pad |-> n]

NL == Ch("\n")
Chars(s) == [i \in 1..Len(s) |-> Ch(s[i])]

\* The display letter of each error, so that blocks can be told apart.
Letters == <<"R", "A", "B", "D", "F", "G", "H", "K">>

\* The shapes of display text tried: one line, two lines, an empty line inside.
Shapes == {"one", "two", "gap"}
TextOf(e, shape) ==
    CASE shape = "one" -> Chars(<<Letters[e]>>)
      [] shape = "two" -> Chars(<<Letters[e], "\n", "x">>)
      [] OTHER         -> Chars(<<Letters[e], "\n", "\n", "z">>)

\* The debug form of an error: its structural dump, or the same text as Display
\* for a type whose Debug delegates to Display.
DebugOf(e, same, disp) ==
    IF same THEN disp ELSE Chars(<<"E", "(">>) \o disp \o Chars(<<")">>)

VARIABLES
    numErr,       \* errors reachable from the root
    source,       \* Error::source(): the direct cause of each error, or None
    displayText,  \* Display of each error
    debugText,    \* Debug of each error
    alternate,    \* f.alternate()
    cap,          \* what each sink accepts before its writes fail
    call,         \* the render call in progress
    pc,           \* the statement of debug() about to run
    out,          \* what each call's sink holds
    res,          \* what each call returned
    multiple,     \* let multiple
    chain,        \* the Chain iterator's next element
    count,        \* the counter of enumerate()
    n,            \* the loop variable n
    elem,         \* the loop variable error
    attempts,     \* writes attempted by the call in progress
    failedAt      \* the attempt that failed first, 0 when none has

inputs == <<numErr, source, displayText, debugText, alternate, cap>>
locals == <<multiple, chain, count, n, elem>>
vars == <<numErr, source, displayText, debugText, alternate, cap, call, pc,
          out, res, multiple, chain, count, n, elem, attempts, failedAt>>

Calls == 1..NumCalls

(* ------------------------------ the sink ------------------------------- *)

\* Whether the sink holding o takes all of s.
Accepts(o, s) == cap = Infinite \/ Len(o) + Len(s) <= cap

\* The sink after a write of s: all of it, or what fits before the failure.
Written(o, s) ==
    IF Accepts(o, s) THEN o \o s ELSE o \o SubSeq(s, 1, cap - Len(o))

(* -------------------- the pieces debug() is made of -------------------- *)

\* if f.alternate()
NeverAlternate == FALSE
TakesAlternate == alternate

\* core::fmt::Debug::fmt(error, f)
AlternateText(e) == debugText[e]

\* write!(f, "{}", error)
RootAsDebug(e) == debugText[e]
RootText(e) == displayText[e]

\* write!(f, "\n\nCaused by:")
Header == Chars(<<"\n", "\n", "C", "a", "u", "s", "e", "d", " ", "b", "y", ":">>)

\* let multiple = cause.source().is_some()
MultipleFromRoot(cause) == source[Root] # None
Multiple(cause) == source[cause] # None

\* Chain::new(cause): the iterator yields cause first
ChainFromRoot(cause) == Root
ChainNew(cause) == cause

\* Chain::next(): after yielding e the iterator stands on e.source()
ChainStays(e) == e
ChainAdvance(e) == source[e]

\* .enumerate(): the index of the first element
EnumerateResumes == count
EnumerateStart == 0

\* the `?` after a write: go on when it succeeded, return the error otherwise
IgnoreFailure(ok, next) == next
Propagate(ok, next) == IF ok THEN next ELSE "done"

\* indented(f).ind(n) when multiple, indented(f) otherwise
FirstPrefix(numbered, ind) ==
    IF numbered THEN <<LabelPiece(ind)>> ELSE Chars(<<" ", " ", " ", " ">>)
RestPrefix(numbered, ind) ==
    IF numbered THEN <<PadPiece(ind)>> ELSE Chars(<<" ", " ", " ", " ">>)

\* Indented::write_str: every newline of the text becomes newline + prefix
RECURSIVE Reindent(_, _)
Reindent(text, prefix) ==
    IF text = <<>> THEN <<>>
    ELSE IF Head(text) = NL
         THEN <<NL>> \o prefix \o Reindent(Tail(text), prefix)
         ELSE <<Head(text)>> \o Reindent(Tail(text), prefix)

Indented(numbered, ind, text) ==
    FirstPrefix(numbered, ind) \o Reindent(text, RestPrefix(numbered, ind))

\* if multiple { ...ind(n) } else { ... }
BlockZeroLabel(m, ind, text) == Indented(m, 0, text)
BlockOwnCause(m, ind, text) == Indented(source[elem] # None, ind, text)
Block(m, ind, text) == Indented(m, ind, text)

(* ------------------------------- Init ---------------------------------- *)

\* Every graph a walk from the root can see: a path of numErr errors whose last
\* one has no cause, or links back to an error of the path.
Graphs(k) ==
    { [e \in 1..k |-> IF e < k THEN e + 1 ELSE t] :
        t \in {None} \cup (IF k <= MaxCycle THEN 1..k ELSE {}) }

Init ==
    /\ numErr \in 1..MaxErrs
    /\ source \in Graphs(numErr)
    /\ \E shape \in [1..numErr -> Shapes] :
         displayText = [e \in 1..numErr |-> TextOf(e, shape[e])]
    /\ alternate \in BOOLEAN
    /\ \E same \in (IF alternate THEN BOOLEAN ELSE {FALSE}) :
         debugText = [e \in 1..numErr |-> DebugOf(e, same, displayText[e])]
    /\ cap \in (0..MaxCap) \cup {Infinite}
    /\ call = 1
    /\ pc = "entry"
    /\ out = [c \in Calls |-> <<>>]
    /\ res = [c \in Calls |-> "none"]
    /\ multiple = FALSE
    /\ chain = None
    /\ count = 0
    /\ n = 0
    /\ elem = None
    /\ attempts = 0
    /\ failedAt = 0

(* ------------------------------ actions -------------------------------- *)

\* One write of s to the sink, followed by `?` (or by a return when next is
\* "done").
Write(s, next) ==
    LET ok == Accepts(out[call], s)
        to == Propagate(ok, next)
    IN  /\ out' = [out EXCEPT ![call] = Written(@, s)]
        /\ attempts' = attempts + 1
        /\ failedAt' = IF ~ok /\ failedAt = 0 THEN attempts + 1 ELSE failedAt
        /\ pc' = to
        /\ res' = IF to = "done"
                  THEN [res EXCEPT ![call] = IF ok THEN "Ok" ELSE "Err"]
                  ELSE res

\* if f.alternate() { return core::fmt::Debug::fmt(error, f); }
AlternateDump ==
    /\ pc = "entry"
    /\ TakesAlternate
    /\ Write(AlternateText(Root), "done")
    /\ UNCHANGED <<inputs, locals, call>>

\* write!(f, "{}", error)?;
WriteRoot ==
    /\ pc = "entry"
    /\ ~TakesAlternate
    /\ Write(RootText(Root), "source")
    /\ UNCHANGED <<inputs, locals, call>>

\* if let Some(cause) = error.source() fails to match: Ok(())
NoCause ==
    /\ pc = "source"
    /\ source[Root] = None
    /\ pc' = "done"
    /\ res' = [res EXCEPT ![call] = "Ok"]
    /\ UNCHANGED <<inputs, locals, call, out, attempts, failedAt>>

\* write!(f, "\n\nCaused by:")?; let multiple = ...; Chain::new(cause).enumerate()
WriteHeader ==
    /\ pc = "source"
    /\ source[Root] # None
    /\ Write(Header, "next")
    /\ multiple' = Multiple(source[Root])
    /\ chain' = ChainNew(source[Root])
    /\ count' = EnumerateStart
    /\ UNCHANGED <<inputs, call, n, elem>>

\* the for loop asks the iterator for (n, error)
ChainYield ==
    /\ pc = "next"
    /\ chain # None
    /\ count < MaxWalk
    /\ elem' = chain
    /\ n' = count
    /\ chain' = ChainAdvance(chain)
    /\ count' = count + 1
    /\ pc' = "newline"
    /\ UNCHANGED <<inputs, call, out, res, multiple, attempts, failedAt>>

\* the same past MaxWalk iterations: the iterator yields again ...
WalkBeyond ==
    /\ pc = "next"
    /\ chain # None
    /\ count >= MaxWalk
    /\ elem' = chain
    /\ chain' = ChainAdvance(chain)
    /\ pc' = "beyond"
    /\ UNCHANGED <<inputs, call, out, res, multiple, count, n, attempts,
                   failedAt>>

\* ... and the body writes to the unlimited sink, unrecorded
WriteBeyond ==
    /\ pc = "beyond"
    /\ pc' = "next"
    /\ UNCHANGED <<inputs, locals, call, out, res, attempts, failedAt>>

\* the iterator is exhausted: Ok(())
ChainEnd ==
    /\ pc = "next"
    /\ chain = None
    /\ pc' = "done"
    /\ res' = [res EXCEPT ![call] = "Ok"]
    /\ UNCHANGED <<inputs, locals, call, out, attempts, failedAt>>

\* writeln!(f)?;
WriteNewline ==
    /\ pc = "newline"
    /\ Write(<<NL>>, "block")
    /\ UNCHANGED <<inputs, locals, call>>

\* write!(indented(f).ind(n), "{}", error)? or write!(indented(f), "{}", error)?
WriteBlock ==
    /\ pc = "block"
    /\ Write(Block(multiple, n, displayText[elem]), "next")
    /\ UNCHANGED <<inputs, locals, call>>

\* The caller renders the same error again, into the next sink.  The slots of
\* the locals are dead between calls: they are left as they were, and the
\* code assigns every one of them before it reads it.
NextCall ==
    /\ pc = "done"
    /\ call < NumCalls
    /\ call' = call + 1
    /\ pc' = "entry"
    /\ attempts' = 0
    /\ failedAt' = 0
    /\ UNCHANGED <<inputs, locals, out, res>>

Next ==
    \/ AlternateDump
    \/ WriteRoot
    \/ NoCause
    \/ WriteHeader
    \/ ChainYield
    \/ WalkBeyond
    \/ WriteBeyond
    \/ ChainEnd
    \/ WriteNewline
    \/ WriteBlock
    \/ NextCall

Spec == Init /\ [][Next]_vars

\* debug() is sequential code: it keeps running until it returns.
FairSpec == Spec /\ WF_vars(Next)

(* ------------------- what the claims are stated with ------------------- *)

IsPrefix(p, s) == Len(p) <= Len(s) /\ SubSeq(s, 1, Len(p)) = p

\* The cause links reachable from the root end: the last error has no cause.
Acyclic == source[numErr] = None

\* The root's direct cause has a direct cause of its own.
LongChain == source[Root] # None /\ source[source[Root]] # None

\* Every call has returned.
AllDone == call = NumCalls /\ pc = "done"

\* The error i links away from the root.
RECURSIVE Walk(_, _)
Walk(e, i) == IF i = 0 THEN e ELSE Walk(source[e], i - 1)

\* The lines of a text, split at its newlines.
RECURSIVE Lines(_)
Lines(text) ==
    IF \A i \in 1..Len(text) : text[i] # NL THEN <<text>>
    ELSE LET i == CHOOSE j \in 1..Len(text) :
                      text[j] = NL /\ \A k \in 1..(j - 1) : text[k] # NL
         IN  <<SubSeq(text, 1, i - 1)>> \o Lines(SubSeq(text, i + 1, Len(text)))

\* Each line on a line of its own, behind the 4-space indent.
RECURSIVE IndentedLines(_)
IndentedLines(ls) ==
    IF ls = <<>> THEN <<>>
    ELSE <<NL>> \o Chars(<<" ", " ", " ", " ">>) \o Head(ls) \o IndentedLines(Tail(ls))

CausedBy == Chars(<<"C", "a", "u", "s", "e", "d", " ", "b", "y", ":">>)

\* How often the text s occurs in o.
Occurrences(o, s) ==
    Cardinality({i \in 1..Len(o) :
                   i + Len(s) - 1 <= Len(o) /\ SubSeq(o, i, i + Len(s) - 1) = s})

\* The numeric labels of o, in output order.
Labels(o) ==
    LET ls == SelectSeq(o, LAMBDA p : "label" \in DOMAIN p)
    IN  [i \in 1..Len(ls) |-> ls[i].label]

IsNumbering(p) == "label" \in DOMAIN p \/ "pad" \in DOMAIN p

\* The blocks of the chain elements i .. k links away from the root, each
\* after its newline, numbered or not as a whole.
RECURSIVE BlocksFrom(_, _, _)
BlocksFrom(i, k, numbered) ==
    IF i > k THEN <<>>
    ELSE <<NL>> \o Indented(numbered, i - 1, displayText[Walk(Root, i)])
         \o BlocksFrom(i + 1, k, numbered)

\* The report of the root and the first k elements of its chain.
ReportUpTo(k) ==
    displayText[Root]
    \o (IF source[Root] = None THEN <<>> ELSE Header \o BlocksFrom(1, k, LongChain))

\* What the call is to write in full, as far as the model records it.
Intended ==
    IF alternate THEN debugText[Root]
    ELSE ReportUpTo(IF Acyclic THEN numErr - 1 ELSE MaxWalk)

(* ------------------------------- claims -------------------------------- *)

\* C1 (as stated): for an error with no cause, the output of a call that
\* returned Ok is exactly the error's display text, in normal and in alternate
\* mode alike.
C1_DisplayInEveryMode ==
    \A c \in Calls :
        (res[c] = "Ok" /\ source[Root] = None) => out[c] = displayText[Root]

\* C1 (amended): for an error with no cause, the output of a call that returned
\* Ok is exactly the display text in normal mode and exactly the debug form in
\* alternate mode, and holds no "Caused by:" header in either.
C1_NoCause ==
    \A c \in Calls :
        (res[c] = "Ok" /\ source[Root] = None) =>
            /\ ~alternate => out[c] = displayText[Root]
            /\ alternate => out[c] = debugText[Root]
            /\ Occurrences(out[c], CausedBy) = 0

C1_Witness ==
    /\ res[1] = "Ok"
    /\ source[Root] = None
    /\ alternate
    /\ debugText[Root] # displayText[Root]
    /\ out[1] = debugText[Root]

\* C2: in normal mode, for an error with exactly one cause that has no cause,
\* the output is the root's display text, a blank line, "Caused by:", then each
\* line of the cause's display text on its own line behind the 4-space
\* indent, without a label and with nothing after the last line.
C2_SingleCause ==
    \A c \in Calls :
        (~alternate /\ res[c] = "Ok" /\ numErr = 2 /\ Acyclic) =>
            out[c] = displayText[Root] \o <<NL, NL>> \o CausedBy
                     \o IndentedLines(Lines(displayText[2]))

C2_Witness ==
    /\ ~alternate
    /\ res[1] = "Ok"
    /\ numErr = 2
    /\ Acyclic
    /\ Len(Lines(displayText[2])) = 3
    /\ Len(out[1]) > Len(displayText[Root]) + 12

\* C3: in normal mode, when the root's cause has a cause of its own, the
\* labels of the output are 0, 1, 2, ... in output order, every line of the
\* section starts with a label or with the padding of one, and a call that
\* returned Ok wrote one label per chain element, the last (chain length - 1).
C3_Labels ==
    \A c \in Calls :
        (~alternate /\ LongChain) =>
            /\ \A i \in 1..Len(Labels(out[c])) : Labels(out[c])[i] = i - 1
            /\ \A i \in 1..(Len(out[c]) - 1) :
                   (out[c][i] = NL /\ i > Len(displayText[Root]) + Len(Header))
                       => IsNumbering(out[c][i + 1])
            /\ res[c] = "Ok" => Len(Labels(out[c])) = numErr - 1

C3_Witness ==
    /\ ~alternate
    /\ res[1] = "Ok"
    /\ numErr = 4
    /\ Labels(out[1]) = <<0, 1, 2>>

\* C5: in alternate mode, whatever the chain, the call makes one write, of the
\* root's debug form: a call that returned Ok wrote exactly that, a failed one
\* a prefix of it, and the chain is never walked (no iterator, no index, no
\* label or padding).
C5_AlternateDump ==
    alternate =>
        /\ \A c \in Calls :
               /\ IsPrefix(out[c], debugText[Root])
               /\ res[c] = "Ok" => out[c] = debugText[Root]
               /\ \A i \in 1..Len(out[c]) : ~IsNumbering(out[c][i])
        /\ pc \in {"entry", "done"}
        /\ attempts <= 1
        /\ chain = None /\ count = 0 /\ elem = None

C5_Witness ==
    /\ alternate
    /\ res[1] = "Ok"
    /\ numErr >= 3
    /\ debugText[Root] # displayText[Root]
    /\ out[1] = debugText[Root]

\* C6: once a write has failed the call has returned Err and attempts no
\* further write; the sink then holds a proper prefix of the report, filled to
\* the point of failure; and a call returns Ok only if none of its writes
\* failed.
C6_FailStops ==
    /\ failedAt # 0 => (attempts = failedAt /\ pc = "done" /\ res[call] = "Err")
    /\ (pc = "done" /\ res[call] = "Ok") => failedAt = 0
    /\ \A c \in Calls :
           res[c] = "Err" =>
               /\ Len(out[c]) = cap
               /\ IsPrefix(out[c], Intended)
               /\ out[c] # Intended

C6_Witness ==
    /\ ~alternate
    /\ res[call] = "Err"
    /\ failedAt = 4
    /\ attempts = 4
    /\ numErr = 4
    /\ Len(out[call]) > Len(displayText[Root]) + Len(Header) + 1

\* Rendering the same error twice, in the same mode, into two sinks of the
\* same kind gives the same output and the same result.
C7_SameOutput ==
    \A c1, c2 \in Calls :
        (res[c1] # "none" /\ res[c2] # "none") =>
            (out[c1] = out[c2] /\ res[c1] = res[c2])

\* No step of a call changes the error's cause links or its texts.
C7_ErrorUntouched ==
    [][source' = source /\ displayText' = displayText /\ debugText' = debugText]_vars

\* C7: the outputs and results of the calls agree in every state, and every
\* step leaves the error untouched.
C7_Deterministic == []C7_SameOutput /\ C7_ErrorUntouched

C7_Witness ==
    /\ ~alternate
    /\ res[1] = "Ok"
    /\ res[2] = "Ok"
    /\ numErr = 4
    /\ out[2] = out[1]
    /\ Len(Labels(out[2])) = 3

\* C8: while the loop runs, `multiple` is what was decided from the first
\* chain element's own cause, which is whether the chain has more than one
\* element; between two iterations every block written so far is numbered if
\* it is true and none is if it is false.
C8_NumberingPolicy ==
    /\ pc \in {"next", "newline", "block", "beyond"} =>
           /\ multiple = (source[source[Root]] # None)
           /\ multiple = (IF Acyclic THEN numErr - 1 > 1 ELSE TRUE)
    /\ pc = "next" =>
           /\ Len(Labels(out[call])) = (IF multiple THEN count ELSE 0)
           /\ multiple =>
                  Occurrences(out[call], <<NL, Ch(" ")>>) = 0
           /\ ~multiple =>
                  \A i \in 1..Len(out[call]) : ~IsNumbering(out[call][i])

C8_Witness ==
    /\ pc = "next"
    /\ multiple
    /\ count = 3
    /\ chain = None
    /\ Labels(out[call]) = <<0, 1, 2>>

C10_CausalOrder ==
    \A c \in Calls :
        (~alternate /\ Acyclic) =>
            LET report == ReportUpTo(numErr - 1)
            IN  /\ IsPrefix(out[c], report)
                /\ res[c] = "Ok" =>
                       /\ out[c] = report
                       /\ Occurrences(out[c], CausedBy)
                              = (IF numErr = 1 THEN 0 ELSE 1)
                       /\ Occurrences(out[c], <<Ch(Letters[Root])>>) = 1
                       /\ \A e \in 2..numErr :
                              Occurrences(out[c], <<Ch(Letters[e])>>) = 1
                       /\ \A e \in 2..(numErr - 1) :
                              \E i, j \in 1..Len(out[c]) :
                                  /\ i < j
                                  /\ out[c][i] = Ch(Letters[e])
                                  /\ out[c][j] = Ch(Letters[e + 1])

C10_Witness ==
    /\ ~alternate
    /\ res[1] = "Ok"
    /\ numErr = 4
    /\ Acyclic
    /\ out[1] = ReportUpTo(3)

====
